---- MODULE Spec2Model ----
(***************************************************************************)
(* Model of SolanaPaymentSystem (src/solana-payment-system.js): the        *)
(* in-memory payment-request store, checkPaymentStatus with its two        *)
(* suspension points on the ledger gateway, the polling watcher, the       *)
(* pending-payments listing and the cleanup sweep.                         *)
(*                                                                         *)
(* JavaScript runs each handler to its next await atomically, so every     *)
(* action below is one such run-to-completion segment.  Objects are        *)
(* references: `heap` holds the payment objects and `pendingPayments`      *)
(* maps a payment id to the address of its object, so that a suspended     *)
(* call keeps writing to the object it captured even after the id was      *)
(* deleted or rebound.                                                     *)
(***************************************************************************)
EXTENDS Integers, Sequences, FiniteSets, TLC

VARIABLES
    now,              \* Date.now(), milliseconds
    heap,             \* payment objects, indexed by address (allocation order)
    pendingPayments,  \* this.pendingPayments: the (key, address in heap) entries,
                      \* in the insertion order of the keys
    issued,           \* every payment id ever returned by createPaymentRequest
    ledger,           \* the treasury's transaction history, most recent first
    calls,            \* per caller: the checkPaymentStatus call it has in flight
    watchers,         \* per watcher: state of waitForPaymentConfirmation
    ticks,            \* number of clock advances taken so far
    last              \* the event of the last step (operation, arguments, result)

vars == <<now, heap, pendingPayments, issued, ledger, calls, watchers, ticks, last>>

----------------------------------------------------------------------------
(* Bounds of the model *)

MaxEvents == 4       \* creations, ledger transactions and clock advances in a run
StartTime == 5000    \* clock value at construction (ms)

(* Program constants *)

LAMPORTS_PER_SOL == 1000000000
PaymentTimeout == 1000
PollInterval == 1000
Tolerance == 1000
SignatureLimit == 10
RetentionMs == 86400000
MsPerSecond == 1000

Undefined == -1      \* an absent numeric property (confirmedAt, transactionSignature)
BtNull == -1         \* blockTime: null
BtUndefined == -2    \* blockTime: undefined

Treasury == "T"      \* config.treasuryWallet
OtherAccount == "X"  \* any other account key

----------------------------------------------------------------------------
(* Inputs *)

\* amountSol is a JavaScript number; it is given here as the fraction num/den.
Sol(n, d) == [num |-> n, den |-> d]
OneSol == Sol(1, 1)
ValidAmounts == {OneSol}
InvalidAmounts == {Sol(0, 1), Sol(-1, 1)}
ValidUsers == {"u1"}
InvalidUsers == {""}

DirectCallers == {"c1", "c2"}
WatcherIds == {"w1"}
Callers == DirectCallers \cup WatcherIds

\* crypto.randomBytes(4): two sample values of the random suffix.
Suffixes == {0, 1}

UnknownId == <<"nobody", 0, 0>>

----------------------------------------------------------------------------
(* Pure helpers *)

Abs(x) == IF x < 0 THEN -x ELSE x

Min(a, b) == IF a < b THEN a ELSE b

\* amountSol * LAMPORTS_PER_SOL
SolToLamports(a) == (a.num * LAMPORTS_PER_SOL) \div a.den

\* !userId
UserIdMissing(userId) == userId = ""

\* Variant: zero is let through (only negative amounts are rejected).
AmountRejectedNegativeOnly(a) == a.num < 0

\* !amountSol || amountSol <= 0
AmountRejected(a) == a.num = 0 \/ a.num <= 0

\* `payment_${userId}_${Date.now()}_${crypto.randomBytes(4).toString('hex')}`
PaymentId(userId, t, suffix) == <<userId, t, suffix>>

IdleCall == [pc |-> "idle", id |-> UnknownId, obj |-> 0, sigs |-> <<>>]

\* cancelled records that the caller has asked for the watch to stop; the code
\* keeps no such field and never reads it.
NoWatcher ==
    [st |-> "none", id |-> UnknownId, obj |-> 0, due |-> 0, delivered |-> <<>>,
     cancelled |-> FALSE]

\* The events that count against MaxEvents.
Events == Len(heap) + Len(ledger) + ticks

\* Object.keys(this.pendingPayments)
Keys == {pendingPayments[i].key : i \in DOMAIN pendingPayments}

Stored(id) == id \in Keys

\* The address of the object bound to a stored id.
AddrOf(id) ==
    pendingPayments[CHOOSE i \in DOMAIN pendingPayments : pendingPayments[i].key = id].obj

\* this.pendingPayments[paymentId]
Rec(id) == heap[AddrOf(id)]

\* this.pendingPayments[paymentId] = object: a new key goes last, an existing
\* key keeps its place and is rebound.
Bind(entries, id, obj) ==
    IF \E i \in DOMAIN entries : entries[i].key = id
    THEN [i \in DOMAIN entries |->
             IF entries[i].key = id THEN [key |-> id, obj |-> obj] ELSE entries[i]]
    ELSE Append(entries, [key |-> id, obj |-> obj])

----------------------------------------------------------------------------
(* The ledger gateway *)

\* A transaction whose treasury balance changes by delta (postBalance - preBalance).
Transfer(delta) ==
    [detail |-> "ok",
     accounts |-> << [key |-> OtherAccount, pre |-> 2 * LAMPORTS_PER_SOL,
                      post |-> 2 * LAMPORTS_PER_SOL - delta - 5000],
                     [key |-> Treasury, pre |-> 5000, post |-> 5000 + delta] >>]

\* The same transfer, reported as failed by the ledger (meta.err set).
FailedTransfer(delta) == [Transfer(delta) EXCEPT !.detail = "err"]

\* A transaction that moves delta between two other accounts only.
ForeignTransfer(delta) ==
    [detail |-> "ok",
     accounts |-> << [key |-> OtherAccount, pre |-> 0, post |-> delta] >>]

\* A transaction that lists the treasury but moves delta into another account
\* and leaves the treasury balance unchanged.
SideTransfer(delta) ==
    [detail |-> "ok",
     accounts |-> << [key |-> OtherAccount, pre |-> 0, post |-> delta],
                     [key |-> Treasury, pre |-> 5000, post |-> 5000] >>]

\* The transfer of delta into the treasury, paid from the account payer.
TransferFrom(payer, delta) ==
    [Transfer(delta) EXCEPT !.accounts[1].key = payer]

\* getTransaction answers null for the signature of this transfer.
MissingDetail(delta) == [Transfer(delta) EXCEPT !.detail = "null"]

\* The detail of this transfer has no meta.
MissingMeta(delta) == [Transfer(delta) EXCEPT !.detail = "nometa"]

\* The detail of this transfer has meta but no transaction.message.
MissingMessage(delta) == [Transfer(delta) EXCEPT !.detail = "nomessage"]

\* Variant: the whole history is requested, without a limit.
GetSignaturesForAddressUnlimited(l) ==
    [i \in 1..Len(l) |-> [signature |-> l[i].signature, blockTime |-> l[i].blockTime]]

\* connection.getSignaturesForAddress(treasury, { limit: 10 })
GetSignaturesForAddress(l) ==
    [i \in 1..Min(Len(l), SignatureLimit) |->
        [signature |-> l[i].signature, blockTime |-> l[i].blockTime]]

\* connection.getTransaction(signature)
GetTransaction(l, signature) ==
    l[CHOOSE i \in 1..Len(l) : l[i].signature = signature]

----------------------------------------------------------------------------
(* createPaymentRequest *)

CreateAccepts(userId, amountSol) ==
    ~UserIdMissing(userId) /\ ~AmountRejected(amountSol)

\* The object stored at lines 56-63; tCreated and tExpires are the two
\* Date.now() readings of lines 60 and 61.
NewPayment(userId, amountSol, tCreated, tExpires) ==
    [userId |-> userId,
     amountLamports |-> SolToLamports(amountSol),
     status |-> "pending",
     createdAt |-> tCreated,
     expiresAt |-> tExpires + PaymentTimeout,
     confirmedAt |-> Undefined,
     transactionSignature |-> Undefined]

\* The clock may advance by a millisecond between two readings of Date.now()
\* inside one synchronous run.
ClockSlips == {0, 1}

CreatePaymentRequest(userId, amountSol, suffix, e1, e2) ==
    IF ~CreateAccepts(userId, amountSol)
    THEN /\ last' = [op |-> "create", userId |-> userId, amountSol |-> amountSol,
                     ret |-> "error"]
         /\ UNCHANGED <<now, heap, pendingPayments, issued, ledger, calls,
                        watchers, ticks>>
    ELSE LET tId == now
             tCreated == tId + e1
             tExpires == tCreated + e2
             id == PaymentId(userId, tId, suffix)
             obj == NewPayment(userId, amountSol, tCreated, tExpires)
         IN /\ Events < MaxEvents
            /\ heap' = Append(heap, obj)
            /\ pendingPayments' = Bind(pendingPayments, id, Len(heap) + 1)
            /\ issued' = issued \cup {id}
            /\ now' = tExpires
            /\ last' = [op |-> "create", userId |-> userId, amountSol |-> amountSol,
                        ret |-> "ok", paymentId |-> id, walletAddress |-> Treasury,
                        expiresAt |-> obj.expiresAt, obj |-> Len(heap) + 1]
            /\ UNCHANGED <<ledger, calls, watchers, ticks>>

----------------------------------------------------------------------------
(* checkPaymentStatus *)

\* Variant: no time filter, every listed signature is examined.
IsRelevantAlways(blockTime, createdAt) == TRUE

\* Variant: a signature without block time is let through the time filter.
IsRelevantOrUntimed(blockTime, createdAt) ==
    \/ blockTime \in {BtNull, BtUndefined}
    \/ blockTime * MsPerSecond >= createdAt

\* new Date(sig.blockTime * 1000) >= new Date(payment.createdAt):
\* null * 1000 is 0; undefined * 1000 is NaN, an invalid date, never >=.
IsRelevant(blockTime, createdAt) ==
    /\ blockTime # BtUndefined
    /\ (IF blockTime = BtNull THEN 0 ELSE blockTime * MsPerSecond) >= createdAt

RelevantSignatures(sigs, createdAt) ==
    SelectSeq(sigs, LAMBDA s : IsRelevant(s.blockTime, createdAt))

\* Variant: only the exact amount is accepted, there is no tolerance.
AmountMatchesExact(balanceChange, amountLamports) ==
    balanceChange = amountLamports

\* Variant: the tolerance boundary is inclusive.
AmountMatchesInclusive(balanceChange, amountLamports) ==
    Abs(balanceChange - amountLamports) <= Tolerance

\* Math.abs(balanceChange - payment.amountLamports) < 1000
AmountMatches(balanceChange, amountLamports) ==
    Abs(balanceChange - amountLamports) < Tolerance

\* Variant: meta.err is not tested, a failed transaction is examined like any other.
ExamineIgnoresErr(tx, amountLamports) ==
    IF tx.detail \in {"null", "nometa"} THEN "skip"
    ELSE IF tx.detail = "nomessage" THEN "throw"
    ELSE IF \E i \in 1..Len(tx.accounts) :
                /\ tx.accounts[i].key = Treasury
                /\ AmountMatches(tx.accounts[i].post - tx.accounts[i].pre,
                                 amountLamports)
         THEN "match"
         ELSE "skip"

\* Variant: the balance change of any account is compared, whatever its key.
ExamineAnyAccount(tx, amountLamports) ==
    IF tx.detail \in {"null", "nometa", "err"} THEN "skip"
    ELSE IF tx.detail = "nomessage" THEN "throw"
    ELSE IF \E i \in 1..Len(tx.accounts) :
                AmountMatches(tx.accounts[i].post - tx.accounts[i].pre,
                              amountLamports)
         THEN "match"
         ELSE "skip"

\* Lines 113-136 for one fetched transaction: "skip", "match", or "throw"
\* (a TypeError on a detail without message/accountKeys).
Examine(tx, amountLamports) ==
    IF tx.detail \in {"null", "nometa", "err"} THEN "skip"
    ELSE IF tx.detail = "nomessage" THEN "throw"
    ELSE IF \E i \in 1..Len(tx.accounts) :
                /\ tx.accounts[i].key = Treasury
                /\ AmountMatches(tx.accounts[i].post - tx.accounts[i].pre,
                                 amountLamports)
         THEN "match"
         ELSE "skip"

\* Lines 130-132.
Confirm(h, obj, signature) ==
    [h EXCEPT ![obj].status = "confirmed",
              ![obj].confirmedAt = now,
              ![obj].transactionSignature = signature]

AwaitSignatures(id) ==
    [ret |-> "await", heap |-> heap,
     call |-> [pc |-> "sigs", id |-> id, obj |-> AddrOf(id), sigs |-> <<>>]]

MarkExpired(id) ==
    [ret |-> "false", heap |-> [heap EXCEPT ![AddrOf(id)].status = "expired"],
     call |-> IdleCall]

\* Variant: the expiry test comes before the confirmed test.
CheckBeginExpiryFirst(id) ==
    IF ~Stored(id) THEN [ret |-> "throw", heap |-> heap, call |-> IdleCall]
    ELSE IF now > Rec(id).expiresAt THEN MarkExpired(id)
    ELSE IF Rec(id).status = "confirmed"
    THEN [ret |-> "true", heap |-> heap, call |-> IdleCall]
    ELSE AwaitSignatures(id)

\* Variant: no fast path for a confirmed record, it is verified again.
CheckBeginNoFastPath(id) ==
    IF ~Stored(id) THEN [ret |-> "throw", heap |-> heap, call |-> IdleCall]
    ELSE IF now > Rec(id).expiresAt /\ Rec(id).status # "confirmed" THEN MarkExpired(id)
    ELSE AwaitSignatures(id)

\* Variant: no expiry test at the start of a call.
CheckBeginNoExpiry(id) ==
    IF ~Stored(id) THEN [ret |-> "throw", heap |-> heap, call |-> IdleCall]
    ELSE IF Rec(id).status = "confirmed"
    THEN [ret |-> "true", heap |-> heap, call |-> IdleCall]
    ELSE AwaitSignatures(id)

\* Variant: an unknown id is answered with false instead of an error.
CheckBeginUnknownIsFalse(id) ==
    IF ~Stored(id) THEN [ret |-> "false", heap |-> heap, call |-> IdleCall]
    ELSE IF Rec(id).status = "confirmed"
    THEN [ret |-> "true", heap |-> heap, call |-> IdleCall]
    ELSE IF now > Rec(id).expiresAt THEN MarkExpired(id)
    ELSE AwaitSignatures(id)

\* Variant: an overdue record is answered with false but not marked expired.
CheckBeginExpiryNoMark(id) ==
    IF ~Stored(id) THEN [ret |-> "throw", heap |-> heap, call |-> IdleCall]
    ELSE IF Rec(id).status = "confirmed"
    THEN [ret |-> "true", heap |-> heap, call |-> IdleCall]
    ELSE IF now > Rec(id).expiresAt
    THEN [ret |-> "false", heap |-> heap, call |-> IdleCall]
    ELSE AwaitSignatures(id)

\* Variant: the expiry branch marks every overdue pending record of the store,
\* not only the one asked for.
CheckBeginExpiresAll(id) ==
    IF ~Stored(id) THEN [ret |-> "throw", heap |-> heap, call |-> IdleCall]
    ELSE IF Rec(id).status = "confirmed"
    THEN [ret |-> "true", heap |-> heap, call |-> IdleCall]
    ELSE IF now > Rec(id).expiresAt
    THEN [ret |-> "false",
          heap |-> [obj \in DOMAIN heap |->
                       IF heap[obj].status = "pending" /\ now > heap[obj].expiresAt
                       THEN [heap[obj] EXCEPT !.status = "expired"]
                       ELSE heap[obj]],
          call |-> IdleCall]
    ELSE AwaitSignatures(id)

\* Lines 80-102: the synchronous start of a call, up to the first await.
CheckBegin(id) ==
    IF ~Stored(id)
    THEN [ret |-> "throw", heap |-> heap, call |-> IdleCall]
    ELSE LET obj == AddrOf(id)
         IN IF heap[obj].status = "confirmed"
            THEN [ret |-> "true", heap |-> heap, call |-> IdleCall]
            ELSE IF now > heap[obj].expiresAt
            THEN [ret |-> "false",
                  heap |-> [heap EXCEPT ![obj].status = "expired"],
                  call |-> IdleCall]
            ELSE [ret |-> "await", heap |-> heap,
                  call |-> [pc |-> "sigs", id |-> id, obj |-> obj, sigs |-> <<>>]]

\* Variant: the relevant signatures are examined oldest first.
SignaturesArriveOldestFirst(call) ==
    LET all == GetSignaturesForAddress(ledger)
        rel == RelevantSignatures(all, heap[call.obj].createdAt)
    IN IF rel = <<>>
       THEN [ret |-> "false", heap |-> heap, call |-> IdleCall]
       ELSE [ret |-> "await", heap |-> heap,
             call |-> [call EXCEPT !.pc = "tx",
                                   !.sigs = [i \in 1..Len(rel) |->
                                                rel[Len(rel) + 1 - i].signature]]]

\* Lines 99-111: the signature list arrives; it is filtered and the first
\* transaction detail is requested.
SignaturesArrive(call) ==
    LET all == GetSignaturesForAddress(ledger)
        rel == RelevantSignatures(all, heap[call.obj].createdAt)
    IN IF rel = <<>>
       THEN [ret |-> "false", heap |-> heap, call |-> IdleCall]
       ELSE [ret |-> "await", heap |-> heap,
             call |-> [call EXCEPT !.pc = "tx",
                                   !.sigs = [i \in 1..Len(rel) |-> rel[i].signature]]]

\* Variant: a transaction confirms a record only if it was paid from the
\* account named like the record's userId.
TransactionArrivesFromPayer(call) ==
    LET signature == Head(call.sigs)
        tx == GetTransaction(ledger, signature)
        verdict == Examine(tx, heap[call.obj].amountLamports)
    IN IF verdict = "match" /\ tx.accounts[1].key = heap[call.obj].userId
       THEN [ret |-> "true", heap |-> Confirm(heap, call.obj, signature),
             call |-> IdleCall]
       ELSE IF verdict = "throw" \/ Tail(call.sigs) = <<>>
       THEN [ret |-> "false", heap |-> heap, call |-> IdleCall]
       ELSE [ret |-> "await", heap |-> heap,
             call |-> [call EXCEPT !.sigs = Tail(call.sigs)]]

\* Lines 111-140: one transaction detail arrives and is examined.
TransactionArrives(call) ==
    LET signature == Head(call.sigs)
        tx == GetTransaction(ledger, signature)
        verdict == Examine(tx, heap[call.obj].amountLamports)
    IN IF verdict = "match"
       THEN [ret |-> "true", heap |-> Confirm(heap, call.obj, signature),
             call |-> IdleCall]
       ELSE IF verdict = "throw" \/ Tail(call.sigs) = <<>>
       THEN [ret |-> "false", heap |-> heap, call |-> IdleCall]
       ELSE [ret |-> "await", heap |-> heap,
             call |-> [call EXCEPT !.sigs = Tail(call.sigs)]]

\* Variant: a gateway failure is raised to the caller instead of being caught.
GatewayRejectsRaises(call) ==
    [ret |-> "throw", heap |-> heap, call |-> IdleCall]

\* Lines 141-144: a gateway request rejects; the error is logged.
GatewayRejects(call) ==
    [ret |-> "false", heap |-> heap, call |-> IdleCall]

\* console.error at line 142: the answer to the suspended call of c is reported
\* on the logging side channel, because the gateway failed or because the
\* examined detail raised a TypeError.
ErrorLogged(c, failed) ==
    \/ failed
    \/ /\ calls[c].pc = "tx"
       /\ Examine(GetTransaction(ledger, Head(calls[c].sigs)),
                  heap[calls[c].obj].amountLamports) = "throw"

\* The continuation of the suspended call of caller c.
Resume(c, failed) ==
    IF failed THEN GatewayRejects(calls[c])
    ELSE IF calls[c].pc = "sigs" THEN SignaturesArrive(calls[c])
    ELSE TransactionArrives(calls[c])

\* A direct call of checkPaymentStatus(id) by caller c.
CheckPaymentStatus(c, id) ==
    /\ calls[c].pc = "idle"
    /\ LET out == CheckBegin(id)
       IN /\ heap' = out.heap
          /\ calls' = [calls EXCEPT ![c] = out.call]
          /\ last' = [op |-> "check", caller |-> c, id |-> id, ret |-> out.ret,
                      gateway |-> out.ret = "await", logged |-> FALSE]
    /\ UNCHANGED <<now, pendingPayments, issued, ledger, watchers, ticks>>

\* The gateway answers (or fails) the request a direct call is suspended on.
CheckResume(c, failed) ==
    /\ calls[c].pc # "idle"
    /\ LET out == Resume(c, failed)
       IN /\ heap' = out.heap
          /\ calls' = [calls EXCEPT ![c] = out.call]
          /\ last' = [op |-> "check", caller |-> c, id |-> calls[c].id,
                      ret |-> out.ret, gateway |-> TRUE,
                      logged |-> ErrorLogged(c, failed)]
    /\ UNCHANGED <<now, pendingPayments, issued, ledger, watchers, ticks>>

----------------------------------------------------------------------------
(* waitForPaymentConfirmation *)

\* Variant: the watcher has no expiry test of its own; a false answer always
\* leads to another poll.
DeliveriesWithoutExpiry(ret, expired, handlerThrows, dated) ==
    IF ret = "true"
    THEN IF ~dated THEN <<"error">>
         ELSE IF handlerThrows THEN <<"confirmed", "error">> ELSE <<"confirmed">>
    ELSE IF ret = "throw" THEN <<"error">>
    ELSE <<>>

\* The results handed to the callback by one run of checkPayment (lines
\* 162-190) whose checkPaymentStatus call ended with ret.  A callback that
\* throws inside the try block is called again by the catch block.  dated
\* tells whether the captured payment has a confirmedAt: without one,
\* new Date(undefined).toISOString() at line 170 throws a RangeError before the
\* callback is called, and the catch block reports that error.
Deliveries(ret, expired, handlerThrows, dated) ==
    IF ret = "true"
    THEN IF ~dated THEN <<"error">>
         ELSE IF handlerThrows THEN <<"confirmed", "error">> ELSE <<"confirmed">>
    ELSE IF ret = "throw" THEN <<"error">>
    ELSE IF ret = "false" /\ expired
    THEN IF handlerThrows THEN <<"expired", "error">> ELSE <<"expired">>
    ELSE <<>>

\* Variant: the next run is scheduled without delay.
AfterCheckNoDelay(w, out, handlerThrows) ==
    LET expired == now > out.heap[w.obj].expiresAt
        dated == out.heap[w.obj].confirmedAt # Undefined
        given == Deliveries(out.ret, expired, handlerThrows, dated)
    IN IF out.ret = "await"
       THEN [w EXCEPT !.st = "checking", !.due = 0]
       ELSE IF given # <<>>
       THEN [w EXCEPT !.st = "done", !.due = 0, !.delivered = w.delivered \o given]
       ELSE [w EXCEPT !.st = "waiting", !.due = now]

\* The watcher after one run of checkPayment; out is the outcome of the
\* checkPaymentStatus call it awaited, with the heap that call left.
AfterCheck(w, out, handlerThrows) ==
    LET expired == now > out.heap[w.obj].expiresAt
        dated == out.heap[w.obj].confirmedAt # Undefined
        given == Deliveries(out.ret, expired, handlerThrows, dated)
    IN IF out.ret = "await"
       THEN [w EXCEPT !.st = "checking", !.due = 0]
       ELSE IF given # <<>>
       THEN [w EXCEPT !.st = "done", !.due = 0, !.delivered = w.delivered \o given]
       ELSE [w EXCEPT !.st = "waiting", !.due = now + PollInterval]

\* from is the state the watcher was in when the step was taken: "none" for
\* the call of waitForPaymentConfirmation, "waiting" for a timer, "checking"
\* for a gateway answer.
WatchEvent(w, id, out, given, logged) ==
    [op |-> "watch", caller |-> w, id |-> id, ret |-> out.ret, given |-> given,
     logged |-> logged, from |-> watchers[w].st]

\* Variant: no lookup before polling starts; an unknown id is only noticed by
\* the first verification.
WaitWithoutLookup(w, id, handlerThrows) ==
    /\ watchers[w].st = "none"
    /\ LET out == CheckBegin(id)
           w0 == [NoWatcher EXCEPT !.id = id,
                                   !.obj = IF Stored(id) THEN AddrOf(id) ELSE 0]
           w1 == AfterCheck(w0, out, handlerThrows)
       IN /\ heap' = out.heap
          /\ calls' = [calls EXCEPT ![w] = out.call]
          /\ watchers' = [watchers EXCEPT ![w] = w1]
          /\ last' = WatchEvent(w, id, out, w1.delivered, FALSE)
    /\ UNCHANGED <<now, pendingPayments, issued, ledger, ticks>>

\* waitForPaymentConfirmation(id, callback): lines 153-195, up to the first await.
WaitForPaymentConfirmation(w, id, handlerThrows) ==
    /\ watchers[w].st = "none"
    /\ IF ~Stored(id)
       THEN /\ watchers' = [watchers EXCEPT ![w] =
                               [NoWatcher EXCEPT !.st = "done", !.id = id,
                                                 !.delivered = <<"error">>]]
            /\ last' = [op |-> "watch", caller |-> w, id |-> id, ret |-> "returned",
                        given |-> <<"error">>, logged |-> FALSE, from |-> "none"]
            /\ UNCHANGED <<heap, calls>>
       ELSE LET out == CheckBegin(id)
                w0 == [NoWatcher EXCEPT !.id = id, !.obj = AddrOf(id)]
                w1 == AfterCheck(w0, out, handlerThrows)
            IN /\ heap' = out.heap
               /\ calls' = [calls EXCEPT ![w] = out.call]
               /\ watchers' = [watchers EXCEPT ![w] = w1]
               /\ last' = WatchEvent(w, id, out, w1.delivered, FALSE)
    /\ UNCHANGED <<now, pendingPayments, issued, ledger, ticks>>

\* setTimeout(checkPayment, this.pollInterval) fires.
PollTimerFires(w, handlerThrows) ==
    /\ watchers[w].st = "waiting"
    /\ now >= watchers[w].due
    /\ LET out == CheckBegin(watchers[w].id)
           w1 == AfterCheck(watchers[w], out, handlerThrows)
       IN /\ heap' = out.heap
          /\ calls' = [calls EXCEPT ![w] = out.call]
          /\ watchers' = [watchers EXCEPT ![w] = w1]
          /\ last' = WatchEvent(w, watchers[w].id, out,
                                SubSeq(w1.delivered, Len(watchers[w].delivered) + 1,
                                       Len(w1.delivered)),
                                FALSE)
    /\ UNCHANGED <<now, pendingPayments, issued, ledger, ticks>>

\* The gateway answers (or fails) the request a watcher's call is suspended on.
WatchResume(w, failed, handlerThrows) ==
    /\ watchers[w].st = "checking"
    /\ calls[w].pc # "idle"
    /\ LET out == Resume(w, failed)
           w1 == AfterCheck(watchers[w], out, handlerThrows)
       IN /\ heap' = out.heap
          /\ calls' = [calls EXCEPT ![w] = out.call]
          /\ watchers' = [watchers EXCEPT ![w] = w1]
          /\ last' = WatchEvent(w, watchers[w].id, out,
                                SubSeq(w1.delivered, Len(watchers[w].delivered) + 1,
                                       Len(w1.delivered)),
                                ErrorLogged(w, failed))
    /\ UNCHANGED <<now, pendingPayments, issued, ledger, ticks>>

\* The caller of a running watcher wants it to stop.  waitForPaymentConfirmation
\* returns only a promise of undefined and the timer id of line 187 is dropped,
\* so there is nothing the caller can call: the request changes no program state.
Cancel(w) ==
    /\ watchers[w].st \in {"checking", "waiting"}
    /\ ~watchers[w].cancelled
    /\ watchers' = [watchers EXCEPT ![w].cancelled = TRUE]
    /\ last' = [op |-> "cancel", caller |-> w]
    /\ UNCHANGED <<now, heap, pendingPayments, issued, ledger, calls, ticks>>

----------------------------------------------------------------------------
(* getUserPendingPayments and cleanupExpiredPayments *)

\* new Date(ms).toISOString(): the text "...:ss.mmmZ", kept as the pair of its
\* whole-second part and its millisecond part; texts compare part by part.
ToISOString(ms) == <<ms \div MsPerSecond, ms % MsPerSecond>>

\* Lines 203-211: the entries in key order, filtered and mapped.
GetUserPendingPayments(userId) ==
    LET mine == SelectSeq(pendingPayments,
                          LAMBDA e : /\ heap[e.obj].userId = userId
                                     /\ heap[e.obj].status = "pending")
    IN [i \in 1..Len(mine) |->
           [paymentId |-> mine[i].key,
            userId |-> heap[mine[i].obj].userId,
            amountSol |-> Sol(heap[mine[i].obj].amountLamports, LAMPORTS_PER_SOL),
            createdAt |-> ToISOString(heap[mine[i].obj].createdAt),
            expiresAt |-> ToISOString(heap[mine[i].obj].expiresAt)]]

ListPending(userId) ==
    /\ last' = [op |-> "list", userId |-> userId, ret |-> GetUserPendingPayments(userId)]
    /\ UNCHANGED <<now, heap, pendingPayments, issued, ledger, calls, watchers, ticks>>

\* Variant: the sweep looks at the age only, whatever the status.
ReclaimableAnyStatus(p) == now - p.createdAt > RetentionMs

\* Lines 222-223: the test that selects an entry for deletion.
Reclaimable(p) ==
    /\ p.status \in {"expired", "confirmed"}
    /\ now - p.createdAt > RetentionMs

CleanupExpiredPayments ==
    /\ pendingPayments' = SelectSeq(pendingPayments, LAMBDA e : ~Reclaimable(heap[e.obj]))
    /\ last' = [op |-> "cleanup",
                removed |-> {pendingPayments[i].key : i \in
                    {j \in DOMAIN pendingPayments : Reclaimable(heap[pendingPayments[j].obj])}}]
    /\ UNCHANGED <<now, heap, issued, ledger, calls, watchers, ticks>>

----------------------------------------------------------------------------
(* Environment: the clock and the ledger *)

TickSteps == {MsPerSecond, RetentionMs}

Tick(d) ==
    /\ Events < MaxEvents
    /\ now' = now + d
    /\ ticks' = ticks + 1
    /\ last' = [op |-> "tick"]
    /\ UNCHANGED <<heap, pendingPayments, issued, ledger, calls, watchers>>

\* A transaction lands on the ledger; the gateway lists it first from now on.
AddTransaction(shape, blockTime) ==
    /\ Events < MaxEvents
    /\ ledger' = << [signature |-> Len(ledger) + 1, blockTime |-> blockTime,
                     detail |-> shape.detail, accounts |-> shape.accounts] >> \o ledger
    /\ last' = [op |-> "transaction"]
    /\ UNCHANGED <<now, heap, pendingPayments, issued, calls, watchers, ticks>>

\* n transactions of the same shape land one after the other while no handler
\* of the program runs; the last of them is listed first.
AddTransactions(shape, blockTime, n) ==
    /\ Events < MaxEvents
    /\ ledger' = [i \in 1..n |->
                     [signature |-> Len(ledger) + n + 1 - i, blockTime |-> blockTime,
                      detail |-> shape.detail, accounts |-> shape.accounts]] \o ledger
    /\ last' = [op |-> "transaction"]
    /\ UNCHANGED <<now, heap, pendingPayments, issued, calls, watchers, ticks>>

----------------------------------------------------------------------------
(* The system *)

Init ==
    /\ now = StartTime
    /\ heap = <<>>
    /\ pendingPayments = <<>>
    /\ issued = {}
    /\ ledger = <<>>
    /\ calls = [c \in Callers |-> IdleCall]
    /\ watchers = [w \in WatcherIds |-> NoWatcher]
    /\ ticks = 0
    /\ last = [op |-> "init"]

PaidShapes == {Transfer(LAMPORTS_PER_SOL)}

\* The store, two concurrent direct callers, the ledger, the clock, the sweep.
Next ==
    \/ \E u \in ValidUsers, a \in ValidAmounts, s \in Suffixes :
          CreatePaymentRequest(u, a, s, 0, 0)
    \/ \E c \in DirectCallers, id \in issued \cup {UnknownId} : CheckPaymentStatus(c, id)
    \/ \E c \in DirectCallers, failed \in BOOLEAN : CheckResume(c, failed)
    \/ CleanupExpiredPayments
    \/ \E d \in TickSteps : Tick(d)
    \/ \E shape \in PaidShapes : AddTransaction(shape, now \div MsPerSecond)

Spec == Init /\ [][Next]_vars

\* The store, one direct caller and one watcher running concurrently; the
\* watcher's handler may return normally or throw.
NextWatch ==
    \/ \E u \in ValidUsers, a \in ValidAmounts, s \in Suffixes :
          CreatePaymentRequest(u, a, s, 0, 0)
    \/ \E id \in issued \cup {UnknownId} : CheckPaymentStatus("c1", id)
    \/ \E failed \in BOOLEAN : CheckResume("c1", failed)
    \/ \E w \in WatcherIds, id \in issued \cup {UnknownId}, handlerThrows \in BOOLEAN :
          WaitForPaymentConfirmation(w, id, handlerThrows)
    \/ \E w \in WatcherIds, handlerThrows \in BOOLEAN : PollTimerFires(w, handlerThrows)
    \/ \E w \in WatcherIds, failed \in BOOLEAN, handlerThrows \in BOOLEAN :
          WatchResume(w, failed, handlerThrows)
    \/ CleanupExpiredPayments
    \/ \E d \in TickSteps : Tick(d)
    \/ \E shape \in PaidShapes : AddTransaction(shape, now \div MsPerSecond)

SpecWatch == Init /\ [][NextWatch]_vars

\* createPaymentRequest on accepted and on rejected input, with the clock free
\* to advance between its readings, and the listing of what was created.
NextCreate ==
    \/ \E u \in ValidUsers, a \in ValidAmounts, s \in Suffixes,
          e1 \in ClockSlips, e2 \in ClockSlips :
          CreatePaymentRequest(u, a, s, e1, e2)
    \/ \E u \in ValidUsers \cup InvalidUsers, a \in ValidAmounts \cup InvalidAmounts :
          /\ u \in InvalidUsers \/ a \in InvalidAmounts
          /\ CreatePaymentRequest(u, a, 0, 0, 0)
    \/ \E u \in ValidUsers : ListPending(u)
    \/ Tick(MsPerSecond)

SpecCreate == Init /\ [][NextCreate]_vars

\* The amounts around the tolerance boundary, above and below.
BoundaryShapes ==
    {Transfer(LAMPORTS_PER_SOL + d) : d \in {0, 1 - Tolerance, -Tolerance,
                                              Tolerance - 1, Tolerance}}

\* The match rule: one caller checks sequentially against a ledger holding
\* transfers of every boundary amount, made before and after the request.
NextMatch ==
    \/ \E u \in ValidUsers, a \in ValidAmounts, s \in Suffixes, e1 \in ClockSlips :
          CreatePaymentRequest(u, a, s, e1, 0)
    \/ \E id \in issued : CheckPaymentStatus("c1", id)
    \/ \E failed \in BOOLEAN : CheckResume("c1", failed)
    \/ \E d \in TickSteps : Tick(d)
    \/ \E shape \in BoundaryShapes : AddTransaction(shape, now \div MsPerSecond)

SpecMatch == Init /\ [][NextMatch]_vars

\* The users whose payments are listed.
ListUsers == {"u1", "u2"}

\* The listing and the sweep over a store that holds records of two users in
\* every status: one caller creates, checks, lists and sweeps.
NextList ==
    \/ \E u \in ListUsers, a \in ValidAmounts, s \in Suffixes :
          CreatePaymentRequest(u, a, s, 0, 0)
    \/ \E id \in issued : CheckPaymentStatus("c1", id)
    \/ CheckResume("c1", FALSE)
    \/ \E u \in ListUsers : ListPending(u)
    \/ CleanupExpiredPayments
    \/ \E d \in TickSteps : Tick(d)
    \/ \E shape \in PaidShapes : AddTransaction(shape, now \div MsPerSecond)

SpecList == Init /\ [][NextList]_vars

\* A watcher whose caller may ask for it to stop at any point of its run.
NextCancel ==
    \/ \E u \in ValidUsers, a \in ValidAmounts, s \in Suffixes :
          CreatePaymentRequest(u, a, s, 0, 0)
    \/ \E w \in WatcherIds, id \in issued : WaitForPaymentConfirmation(w, id, FALSE)
    \/ \E w \in WatcherIds : PollTimerFires(w, FALSE)
    \/ \E w \in WatcherIds, failed \in BOOLEAN : WatchResume(w, failed, FALSE)
    \/ \E w \in WatcherIds : Cancel(w)
    \/ Tick(MsPerSecond)
    \/ \E shape \in PaidShapes : AddTransaction(shape, now \div MsPerSecond)

SpecCancel == Init /\ [][NextCancel]_vars

\* What the gateway can hold for one payment of 1 SOL: the transfer itself, the
\* same transfer failed, without detail, without meta, without message, and
\* the same amount moved between other accounts.
AnomalyShapes ==
    {Transfer(LAMPORTS_PER_SOL), FailedTransfer(LAMPORTS_PER_SOL),
     MissingDetail(LAMPORTS_PER_SOL), MissingMeta(LAMPORTS_PER_SOL),
     MissingMessage(LAMPORTS_PER_SOL), ForeignTransfer(LAMPORTS_PER_SOL),
     SideTransfer(LAMPORTS_PER_SOL)}

\* One caller checks a request against a ledger of well-formed, failed and
\* malformed transactions, and of transfers listed without a block time.
NextShapes ==
    \/ \E u \in ValidUsers, a \in ValidAmounts : CreatePaymentRequest(u, a, 0, 0, 0)
    \/ \E id \in issued : CheckPaymentStatus("c1", id)
    \/ CheckResume("c1", FALSE)
    \/ \E shape \in AnomalyShapes : AddTransaction(shape, now \div MsPerSecond)
    \/ \E blockTime \in {BtNull, BtUndefined} :
          AddTransaction(Transfer(LAMPORTS_PER_SOL), blockTime)

SpecShapes == Init /\ [][NextShapes]_vars

\* Payments of other customers, of half the amount asked for here.
OtherPayments == Transfer(LAMPORTS_PER_SOL \div 2)

\* How many other payments land in one go: one fewer than the window, and the
\* whole window.
BurstSizes == {SignatureLimit - 1, SignatureLimit}

\* A busy treasury: the transfer that pays a request is followed by enough
\* other payments to push it to the edge of the signature window or out of it.
NextWindow ==
    \/ \E u \in ValidUsers, a \in ValidAmounts : CreatePaymentRequest(u, a, 0, 0, 0)
    \/ \E id \in issued : CheckPaymentStatus("c1", id)
    \/ CheckResume("c1", FALSE)
    \/ \E shape \in PaidShapes : AddTransaction(shape, now \div MsPerSecond)
    \/ \E n \in BurstSizes : AddTransactions(OtherPayments, now \div MsPerSecond, n)

SpecWindow == Init /\ [][NextWindow]_vars

\* One watcher from start to end: its timers fire and every gateway request it
\* makes is eventually answered or fails.
NextPoll ==
    \/ \E u \in ValidUsers, a \in ValidAmounts : CreatePaymentRequest(u, a, 0, 0, 0)
    \/ \E w \in WatcherIds, id \in issued, handlerThrows \in BOOLEAN :
          WaitForPaymentConfirmation(w, id, handlerThrows)
    \/ \E w \in WatcherIds, handlerThrows \in BOOLEAN : PollTimerFires(w, handlerThrows)
    \/ \E w \in WatcherIds, failed \in BOOLEAN, handlerThrows \in BOOLEAN :
          WatchResume(w, failed, handlerThrows)
    \/ Tick(MsPerSecond)
    \/ \E shape \in PaidShapes : AddTransaction(shape, now \div MsPerSecond)

SpecPoll ==
    /\ Init /\ [][NextPoll]_vars
    /\ WF_vars(\E w \in WatcherIds, handlerThrows \in BOOLEAN :
                  PollTimerFires(w, handlerThrows))
    /\ WF_vars(\E w \in WatcherIds, failed \in BOOLEAN, handlerThrows \in BOOLEAN :
                  WatchResume(w, failed, handlerThrows))

\* Transfers of 1 SOL paid from an unrelated account and from the account of
\* the first user.
PayerShapes ==
    {Transfer(LAMPORTS_PER_SOL), TransferFrom("u1", LAMPORTS_PER_SOL)}

\* Two users ask for the same amount and two callers check their requests
\* against the same ledger.
NextPair ==
    \/ \E u \in ListUsers, a \in ValidAmounts : CreatePaymentRequest(u, a, 0, 0, 0)
    \/ \E c \in DirectCallers, id \in issued : CheckPaymentStatus(c, id)
    \/ \E c \in DirectCallers : CheckResume(c, FALSE)
    \/ Tick(MsPerSecond)
    \/ \E shape \in PayerShapes : AddTransaction(shape, now \div MsPerSecond)

SpecPair == Init /\ [][NextPair]_vars

\* An accepted amount below the tolerance: 0.0000005 SOL, 500 lamports.
DustAmounts == {Sol(1, 2000000)}

\* For a request of 500 lamports: the transfer that pays it, a transaction
\* that lists the treasury with its balance unchanged, and a transaction that
\* takes 400 lamports out of the treasury.
DustShapes == {Transfer(500), SideTransfer(500), Transfer(-400)}

\* Requests for an amount below the tolerance, checked by one caller.
NextDust ==
    \/ \E u \in ValidUsers, a \in DustAmounts, s \in Suffixes :
          CreatePaymentRequest(u, a, s, 0, 0)
    \/ \E id \in issued : CheckPaymentStatus("c1", id)
    \/ CheckResume("c1", FALSE)
    \/ Tick(MsPerSecond)
    \/ \E shape \in DustShapes : AddTransaction(shape, now \div MsPerSecond)

SpecDust == Init /\ [][NextDust]_vars

----------------------------------------------------------------------------
(* Properties *)

\* The step just taken is the start of a direct checkPaymentStatus(id) by c.
StartsCheck(c, id) ==
    /\ calls[c].pc = "idle"
    /\ last'.op = "check" /\ last'.caller = c /\ last'.id = id

\* The treasury balance change of a transaction of the ledger, per account entry.
TreasuryDeltas(tx) ==
    {tx.accounts[i].post - tx.accounts[i].pre :
        i \in {j \in 1..Len(tx.accounts) : tx.accounts[j].key = Treasury}}

\* The transaction is listed, succeeded, and moves exactly the amount of p
\* into the treasury.
PaysExactly(tx, p) == tx.detail = "ok" /\ p.amountLamports \in TreasuryDeltas(tx)

LedgerTxs == {ledger[i] : i \in 1..Len(ledger)}

\* C1: a record whose status is 'expired' never afterwards has status
\* 'confirmed', under every interleaving of checkPaymentStatus calls.
C1_ExpiredNeverConfirmed ==
    [][\A id \in issued :
          (Stored(id) /\ Rec(id).status = "expired" /\ Stored(id)')
              => Rec(id)'.status # "confirmed"]_vars

\* C2: a record whose status is 'confirmed' keeps status 'confirmed' for as
\* long as it exists, whatever checkPaymentStatus calls, watcher steps and
\* clock advances follow.
C2_ConfirmedStaysConfirmed ==
    [][\A id \in issued :
          (Stored(id) /\ Rec(id).status = "confirmed" /\ Stored(id)'
               /\ last'.op # "create")
              => Rec(id)'.status = "confirmed"]_vars

\* C2 witness: a call or a watcher step has acted on a confirmed record after
\* the clock passed its expiresAt, and the record is still confirmed.
C2_Witness ==
    /\ last.op \in {"check", "watch"}
    /\ Stored(last.id)
    /\ Rec(last.id).status = "confirmed"
    /\ Rec(last.id).confirmedAt < now
    /\ now > Rec(last.id).expiresAt

\* C3 (as claimed): once a record is not confirmed and now > expiresAt, no
\* checkPaymentStatus call on it returns true at any later point.
C3_NoTrueAfterExpiry ==
    [][\A id \in issued :
          (Stored(id) /\ Rec(id).status # "confirmed" /\ now > Rec(id).expiresAt)
              => ~(last'.op = "check" /\ last'.id = id /\ last'.ret = "true")]_vars

\* C3 (amended): every checkPaymentStatus call that starts while the record is
\* not confirmed and now > expiresAt returns false without a gateway request
\* and leaves the record expired.
C3_StartedPastDueReturnsFalse ==
    [][\A c \in DirectCallers, id \in issued :
          (StartsCheck(c, id) /\ Stored(id) /\ Rec(id).status # "confirmed"
               /\ now > Rec(id).expiresAt)
              => /\ last'.ret = "false"
                 /\ ~last'.gateway
                 /\ calls'[c].pc = "idle"
                 /\ Rec(id)'.status = "expired"]_vars

\* C3 witness: a call started past expiry has returned false although a
\* perfectly matching, timely transaction is on the ledger.
C3_Witness ==
    /\ last.op = "check" /\ last.ret = "false" /\ ~last.gateway
    /\ Stored(last.id)
    /\ Rec(last.id).status = "expired"
    /\ \E tx \in LedgerTxs :
          /\ PaysExactly(tx, Rec(last.id))
          /\ tx.blockTime * MsPerSecond >= Rec(last.id).createdAt

\* C4: a checkPaymentStatus call that starts on a confirmed record returns
\* true without a gateway request and changes no field of any record.
C4_ConfirmedIsIdempotent ==
    [][\A c \in DirectCallers, id \in issued :
          (StartsCheck(c, id) /\ Stored(id) /\ Rec(id).status = "confirmed")
              => /\ last'.ret = "true"
                 /\ ~last'.gateway
                 /\ calls' = calls
                 /\ heap' = heap]_vars

\* C4 witness: a later call on a confirmed record has returned true at once.
C4_Witness ==
    /\ last.op = "check" /\ last.ret = "true" /\ ~last.gateway
    /\ Stored(last.id)
    /\ Rec(last.id).confirmedAt < now
    /\ Rec(last.id).transactionSignature # Undefined

\* C5: once a record is confirmed, its transactionSignature and confirmedAt
\* are never overwritten by another call in flight.
C5_SingleConfirmation ==
    [][\A id \in issued :
          (Stored(id) /\ Rec(id).status = "confirmed" /\ Stored(id)'
               /\ last'.op # "create")
              => /\ Rec(id)'.transactionSignature = Rec(id).transactionSignature
                 /\ Rec(id)'.confirmedAt = Rec(id).confirmedAt]_vars

\* C6: the transaction that confirmed a record never has a block time
\* strictly before the record's createdAt.
C6_OldTransactionNeverConfirms ==
    \A id \in issued :
        (Stored(id) /\ Rec(id).status = "confirmed")
            => LET tx == GetTransaction(ledger, Rec(id).transactionSignature)
               IN ~(tx.blockTime >= 0 /\ tx.blockTime * 1000 < Rec(id).createdAt)

\* C6 witness: a verification ran to the end and returned false while a
\* successful transfer of exactly the expected amount, made in an earlier
\* second than the request, is on the ledger.
C6_Witness ==
    /\ last.op = "check" /\ last.ret = "false" /\ last.gateway /\ ~last.logged
    /\ Stored(last.id)
    /\ Rec(last.id).status = "pending"
    /\ \E tx \in LedgerTxs :
          /\ PaysExactly(tx, Rec(last.id))
          /\ tx.blockTime >= 0
          /\ (tx.blockTime + 1) * 1000 <= Rec(last.id).createdAt

\* C7: when a call examines a successful transaction that lists the treasury,
\* the call confirms the record exactly when abs(delta - expected) < 1000.
C7_ToleranceExclusive ==
    [][\A c \in DirectCallers :
          (calls[c].pc = "tx" /\ last'.op = "check" /\ last'.caller = c
               /\ ~last'.logged)
              => LET tx == GetTransaction(ledger, Head(calls[c].sigs))
                     expected == heap[calls[c].obj].amountLamports
                 IN \A delta \in TreasuryDeltas(tx) :
                        tx.detail = "ok"
                            => ((last'.ret = "true") <=> (Abs(delta - expected) < 1000))]_vars

\* C7 witness: a record was confirmed by a transfer of expected - 999 although
\* a more recent, timely transfer of expected - 1000 was listed before it.
C7_Witness ==
    /\ last.op = "check" /\ last.ret = "true"
    /\ Stored(last.id)
    /\ Rec(last.id).status = "confirmed"
    /\ LET p == Rec(last.id)
           tx == GetTransaction(ledger, p.transactionSignature)
       IN /\ TreasuryDeltas(tx) = {p.amountLamports - 999}
          /\ \E other \in LedgerTxs :
                /\ other.signature > tx.signature
                /\ other.detail = "ok"
                /\ other.blockTime * 1000 >= p.createdAt
                /\ TreasuryDeltas(other) = {p.amountLamports - 1000}

\* C8: createPaymentRequest on valid input stores a pending record whose
\* expiresAt is its createdAt plus paymentTimeout, and returns that expiresAt
\* with the treasury address.
C8_ExpiresAtIsCreatedAtPlusTimeout ==
    (last.op = "create" /\ last.ret = "ok")
        => /\ heap[last.obj].status = "pending"
           /\ heap[last.obj].expiresAt = heap[last.obj].createdAt + PaymentTimeout
           /\ last.expiresAt = heap[last.obj].expiresAt
           /\ last.walletAddress = Treasury

\* C9: createPaymentRequest with an empty userId or an amount <= 0 fails and
\* leaves the record store unchanged.
C9_InvalidCreateRejected ==
    [][(last'.op = "create" /\ (last'.userId = "" \/ last'.amountSol.num <= 0))
          => /\ last'.ret = "error"
             /\ pendingPayments' = pendingPayments
             /\ heap' = heap
             /\ issued' = issued]_vars

\* C9 witness: an invalid create has failed while the store holds a record.
C9_Witness ==
    /\ last.op = "create" /\ last.ret = "error"
    /\ pendingPayments # <<>>

\* C10: checkPaymentStatus on an id that is not in the store fails with
\* 'Payment not found', makes no gateway request and changes nothing.
C10_UnknownIdNotFound ==
    [][\A c \in DirectCallers, id \in issued \cup {UnknownId} :
          (StartsCheck(c, id) /\ ~Stored(id))
              => /\ last'.ret = "throw"
                 /\ ~last'.gateway
                 /\ calls' = calls
                 /\ heap' = heap
                 /\ pendingPayments' = pendingPayments]_vars

\* C10 witness: a call on an id that was issued and later removed by the
\* sweep has failed.
C10_Witness ==
    /\ last.op = "check" /\ last.ret = "throw"
    /\ last.id \in issued
    /\ ~Stored(last.id)

\* A transaction that satisfies the match rule for payment object p: it
\* succeeded, its block time is at or after p.createdAt and a treasury balance
\* delta is within tolerance of the expected amount.
Qualifies(tx, p) ==
    /\ tx.detail = "ok"
    /\ tx.blockTime >= 0
    /\ tx.blockTime * 1000 >= p.createdAt
    /\ \E delta \in TreasuryDeltas(tx) : Abs(delta - p.amountLamports) < 1000

\* The suspended call of c still has a qualifying transaction ahead of it: in
\* the 10-signature window it is about to receive, or among the signatures it
\* has yet to examine.
QualifyingAhead(c) ==
    \/ /\ calls[c].pc = "sigs"
       /\ \E i \in 1..Len(ledger) :
             i <= 10 /\ Qualifies(ledger[i], heap[calls[c].obj])
    \/ /\ calls[c].pc = "tx"
       /\ \E i \in 1..Len(calls[c].sigs) :
             Qualifies(GetTransaction(ledger, calls[c].sigs[i]), heap[calls[c].obj])

\* C11: a call started on a pending, unexpired record to which the gateway
\* returns a qualifying transaction within the 10-signature window returns
\* true and leaves the record confirmed, confirmedAt set and
\* transactionSignature that of a qualifying transaction.  Stated per gateway
\* answer: while a qualifying transaction is ahead, an answer either ends the
\* call that way or leaves a qualifying transaction ahead.
C11_QualifyingTransactionConfirms ==
    [][\A c \in DirectCallers :
          (QualifyingAhead(c) /\ last'.op = "check" /\ last'.caller = c
               /\ ~last'.logged)
              => \/ /\ last'.ret = "true"
                    /\ calls'[c].pc = "idle"
                    /\ heap'[calls[c].obj].status = "confirmed"
                    /\ heap'[calls[c].obj].confirmedAt = now
                    /\ heap'[calls[c].obj].transactionSignature # Undefined
                    /\ Qualifies(GetTransaction(ledger,
                                     heap'[calls[c].obj].transactionSignature),
                                 heap[calls[c].obj])
                 \/ /\ last'.ret = "await"
                    /\ QualifyingAhead(c)']_vars

\* C11 witness: a call has confirmed a record with a transfer of expected + 999
\* after passing over a more recent transfer of expected + 1000.
C11_Witness ==
    /\ last.op = "check" /\ last.ret = "true" /\ last.gateway
    /\ Stored(last.id)
    /\ Rec(last.id).status = "confirmed"
    /\ Rec(last.id).confirmedAt = now
    /\ LET p == Rec(last.id)
           tx == GetTransaction(ledger, p.transactionSignature)
       IN /\ TreasuryDeltas(tx) = {p.amountLamports + 999}
          /\ \E other \in LedgerTxs :
                /\ other.signature > tx.signature
                /\ other.blockTime * 1000 >= p.createdAt
                /\ TreasuryDeltas(other) = {p.amountLamports + 1000}

\* C12: when no transaction the gateway returns satisfies the match rule for a
\* pending, unexpired record, checkPaymentStatus returns false and writes
\* nothing.  Stated per step of the call: its start on such a record only
\* issues the gateway request, and while no qualifying transaction is ahead
\* every gateway answer changes no record and either returns false or leaves
\* no qualifying transaction ahead.
C12_NoMatchLeavesRecordUnchanged ==
    [][\A c \in DirectCallers :
          /\ \A id \in issued :
                (StartsCheck(c, id) /\ Stored(id) /\ Rec(id).status = "pending"
                     /\ now <= Rec(id).expiresAt)
                    => /\ last'.ret = "await"
                       /\ heap' = heap
          /\ (calls[c].pc # "idle" /\ ~QualifyingAhead(c)
                  /\ last'.op = "check" /\ last'.caller = c)
                 => /\ heap' = heap
                    /\ pendingPayments' = pendingPayments
                    /\ \/ last'.ret = "false" /\ calls'[c].pc = "idle"
                       \/ last'.ret = "await" /\ ~QualifyingAhead(c)']_vars

\* C12 witness: a call examined the ledger and returned false, the record is
\* still pending with no confirmation fields, and the ledger holds two timely
\* transfers that miss the expected amount by exactly the tolerance.
C12_Witness ==
    /\ last.op = "check" /\ last.ret = "false" /\ last.gateway /\ ~last.logged
    /\ Stored(last.id)
    /\ LET p == Rec(last.id)
       IN /\ p.status = "pending"
          /\ p.confirmedAt = Undefined /\ p.transactionSignature = Undefined
          /\ now <= p.expiresAt
          /\ Len(ledger) = 2
          /\ \A tx \in LedgerTxs :
                /\ tx.blockTime * 1000 >= p.createdAt
                /\ \E delta \in TreasuryDeltas(tx) :
                      Abs(delta - p.amountLamports) = 1000

\* The step just taken is the start of a verification by watcher w.
StartsVerification(w) ==
    /\ watchers[w].st \in {"none", "waiting"}
    /\ last'.op = "watch" /\ last'.caller = w /\ last'.ret # "returned"

\* C13: a checkPaymentStatus call made on a pending record when now > expiresAt
\* sets the record's status to 'expired' and nothing else, returns false and
\* makes no gateway request; the same holds for the call a watcher makes.
C13_OverdueCallExpires ==
    [][/\ \A c \in DirectCallers, id \in issued :
             (StartsCheck(c, id) /\ Stored(id) /\ Rec(id).status = "pending"
                  /\ now > Rec(id).expiresAt)
                 => /\ last'.ret = "false"
                    /\ ~last'.gateway
                    /\ calls'[c].pc = "idle"
                    /\ heap' = [heap EXCEPT ![AddrOf(id)].status = "expired"]
       /\ \A w \in WatcherIds :
             (StartsVerification(w) /\ Stored(last'.id)
                  /\ Rec(last'.id).status = "pending"
                  /\ now > Rec(last'.id).expiresAt)
                 => /\ last'.ret = "false"
                    /\ calls'[w].pc = "idle"
                    /\ heap' = [heap EXCEPT ![AddrOf(last'.id)].status = "expired"]]_vars

\* C13 witness: with no transaction on the ledger, a direct call made after
\* expiresAt has returned false without a gateway request and the record is
\* expired with no confirmation fields.
C13_Witness ==
    /\ last.op = "check" /\ last.ret = "false" /\ ~last.gateway
    /\ ledger = <<>>
    /\ Stored(last.id)
    /\ Rec(last.id).status = "expired"
    /\ Rec(last.id).confirmedAt = Undefined
    /\ now > Rec(last.id).expiresAt

\* The ids of the entries of a listing.
ListedIds(listing) == {listing[i].paymentId : i \in 1..Len(listing)}

\* C14: getUserPendingPayments(userId) returns exactly the stored records of
\* that user that are pending and for which now < expiresAt.
C14_ListIsPendingAndUnexpired ==
    (last.op = "list")
        => ListedIds(last.ret) =
               {id \in Keys : /\ Rec(id).userId = last.userId
                              /\ Rec(id).status = "pending"
                              /\ now < Rec(id).expiresAt}

\* a <= b for two texts produced by toISOString.
IsoLeq(a, b) == a[1] < b[1] \/ (a[1] = b[1] /\ a[2] <= b[2])

\* C15: the sequence returned by getUserPendingPayments is ordered by
\* createdAt ascending, and each entry carries the paymentId under which its
\* record is stored.
C15_ListOrderedByCreatedAt ==
    (last.op = "list")
        => /\ \A i, j \in 1..Len(last.ret) :
                 i < j => IsoLeq(last.ret[i].createdAt, last.ret[j].createdAt)
           /\ \A i \in 1..Len(last.ret) :
                 /\ Stored(last.ret[i].paymentId)
                 /\ Rec(last.ret[i].paymentId).userId = last.ret[i].userId
                 /\ ToISOString(Rec(last.ret[i].paymentId).createdAt)
                        = last.ret[i].createdAt

\* C16: cleanupExpiredPayments deletes a record if and only if its status is
\* 'confirmed' or 'expired' and now - createdAt exceeds 24 hours; pending
\* records survive whatever their age, and survivors are left unchanged, in
\* their order.
C16_CleanupDeletesTerminalAndOld ==
    [][(last'.op = "cleanup")
          => /\ Keys' = {id \in Keys :
                            ~(/\ Rec(id).status \in {"confirmed", "expired"}
                              /\ now - Rec(id).createdAt > 86400000)}
             /\ \A id \in Keys : Rec(id).status = "pending" => Stored(id)'
             /\ \A id \in Keys' : AddrOf(id)' = AddrOf(id)
             /\ heap' = heap
             /\ \A i, j \in DOMAIN pendingPayments' :
                   i < j => \E k, l \in DOMAIN pendingPayments :
                               /\ k < l
                               /\ pendingPayments[k] = pendingPayments'[i]
                               /\ pendingPayments[l] = pendingPayments'[j]]_vars

\* C16 witness: a sweep has removed a terminal record older than 24 hours
\* while a pending record of the same age survived.
C16_Witness ==
    /\ last.op = "cleanup"
    /\ last.removed # {}
    /\ \A id \in last.removed : ~Stored(id)
    /\ \E id \in Keys :
          /\ Rec(id).status = "pending"
          /\ now - Rec(id).createdAt > 86400000

\* The step just taken is a step of watcher w: the start of the watcher, a
\* poll timer firing, or a gateway answer to its verification.
WatcherStep(w) == last'.op = "watch" /\ last'.caller = w

\* C17: when a verification of a watcher returns true, the handler is invoked
\* with 'confirmed' exactly once; from then on the watcher has no verification
\* outstanding or scheduled and never invokes the handler again.
C17_ConfirmedDeliveredOnce ==
    [][\A w \in WatcherIds :
          /\ (WatcherStep(w) /\ last'.ret = "true")
                 => /\ last'.given = <<"confirmed">>
                    /\ watchers'[w].delivered = <<"confirmed">>
                    /\ watchers'[w].st = "done"
                    /\ calls'[w].pc = "idle"
          /\ (watchers[w].st = "done")
                 => /\ watchers'[w] = watchers[w]
                    /\ calls'[w] = calls[w]
                    /\ ~WatcherStep(w)]_vars

\* C18: whenever a watcher delivers 'expired' to its handler, the record's
\* status is 'expired' at that moment, and the 'expired' result is delivered
\* once.
C18_ExpiredDeliveredOnExpiredRecord ==
    (last.op = "watch" /\ last.given # <<>> /\ Head(last.given) = "expired")
        => LET w == watchers[last.caller]
           IN /\ heap[w.obj].status = "expired"
              /\ Cardinality({i \in DOMAIN w.delivered :
                                  w.delivered[i] = "expired"}) = 1

C21_CancelStopsWatcher ==
    [][\A w \in WatcherIds :
          (watchers[w].cancelled /\ WatcherStep(w))
              => /\ watchers[w].st = "checking"
                 /\ last'.given = <<>>
                 /\ watchers'[w].delivered = watchers[w].delivered
                 /\ watchers'[w].st # "waiting"]_vars

\* C22: every stored record that is not confirmed has status 'expired' once
\* now > expiresAt, whether or not it was ever checked, so that after a sweep
\* no such record older than the retention window is left in the store.
C22_ExpiryIsAutomatic ==
    \A id \in Keys :
        (Rec(id).status # "confirmed" /\ now > Rec(id).expiresAt)
            => /\ Rec(id).status = "expired"
               /\ (last.op = "cleanup" => now - Rec(id).createdAt <= 86400000)

\* C23: every successful createPaymentRequest adds one new record under an id
\* that was not in the store, and leaves every record already stored as it was.
C23_CreateAddsFreshId ==
    [][(last'.op = "create" /\ last'.ret = "ok")
          => /\ ~Stored(last'.paymentId)
             /\ Len(pendingPayments') = Len(pendingPayments) + 1
             /\ \A id \in Keys :
                   /\ Stored(id)'
                   /\ Rec(id)'.userId = Rec(id).userId
                   /\ Rec(id)'.amountLamports = Rec(id).amountLamports
                   /\ Rec(id)'.createdAt = Rec(id).createdAt]_vars

\* C24: a record that has a transactionSignature has status 'confirmed', and
\* confirmedAt and transactionSignature are written only by the confirming
\* step of a checkPaymentStatus call, the one that sets status 'confirmed' and
\* returns true.
C24_SignatureOnlyOnConfirmation ==
    [][/\ \A i \in DOMAIN heap' :
             (\/ heap'[i].transactionSignature # Undefined
              \/ heap'[i].confirmedAt # Undefined)
                 => heap'[i].status = "confirmed"
       /\ \A i \in DOMAIN heap :
             (\/ heap'[i].confirmedAt # heap[i].confirmedAt
              \/ heap'[i].transactionSignature # heap[i].transactionSignature)
                 => /\ heap'[i].status = "confirmed"
                    /\ heap'[i].confirmedAt = now
                    /\ last'.op = "check" /\ last'.ret = "true"]_vars

\* C24 witness: the store holds a confirmed record with both fields set next
\* to an expired record with neither, and a call has just returned.
C24_Witness ==
    /\ last.op = "check"
    /\ \E id \in Keys :
          /\ Rec(id).status = "confirmed"
          /\ Rec(id).transactionSignature # Undefined
          /\ Rec(id).confirmedAt # Undefined
    /\ \E id \in Keys :
          /\ Rec(id).status = "expired"
          /\ Rec(id).transactionSignature = Undefined
          /\ Rec(id).confirmedAt = Undefined

\* C25: no ledger transaction signature is stored as the transactionSignature
\* of two different confirmed records.
C25_NoDoubleCounting ==
    \A id1, id2 \in Keys :
        (/\ id1 # id2
         /\ Rec(id1).status = "confirmed"
         /\ Rec(id2).status = "confirmed")
            => Rec(id1).transactionSignature # Rec(id2).transactionSignature

\* The place of a signature in the gateway's list, most recent first.
PlaceOf(signature) == CHOOSE i \in 1..Len(ledger) : ledger[i].signature = signature

\* C26: the transactionSignature stored is that of the first transaction, in
\* the order the gateway returned them, that satisfies the match rule, and no
\* detail after it is fetched.  Stated per gateway answer: the signatures kept
\* for examination are in the gateway's order and include every qualifying
\* one of the window; a detail that does not qualify is passed over and the
\* next one fetched; the first that qualifies is stored and ends the call.
C26_FirstMatchWins ==
    [][\A c \in DirectCallers :
          (calls[c].pc # "idle" /\ last'.op = "check" /\ last'.caller = c
               /\ ~last'.logged)
              => LET p == heap[calls[c].obj]
                 IN IF calls[c].pc = "sigs"
                    THEN /\ last'.ret \in {"await", "false"}
                         /\ \A k, l \in 1..Len(calls'[c].sigs) :
                               k < l => PlaceOf(calls'[c].sigs[k])
                                            < PlaceOf(calls'[c].sigs[l])
                         /\ \A i \in 1..Len(ledger) :
                               (i <= 10 /\ Qualifies(ledger[i], p))
                                   => \E k \in 1..Len(calls'[c].sigs) :
                                         calls'[c].sigs[k] = ledger[i].signature
                    ELSE IF Qualifies(GetTransaction(ledger, Head(calls[c].sigs)), p)
                    THEN /\ last'.ret = "true"
                         /\ heap'[calls[c].obj].transactionSignature
                                = Head(calls[c].sigs)
                         /\ calls'[c] = IdleCall
                    ELSE /\ heap' = heap
                         /\ IF Tail(calls[c].sigs) = <<>>
                            THEN last'.ret = "false" /\ calls'[c] = IdleCall
                            ELSE /\ last'.ret = "await"
                                 /\ calls'[c].sigs = Tail(calls[c].sigs)]_vars

\* C26 witness: a call has stored the signature of the most recent of two
\* qualifying transfers, both made after the request and before the call ended.
C26_Witness ==
    /\ last.op = "check" /\ last.ret = "true" /\ last.gateway
    /\ Stored(last.id)
    /\ Rec(last.id).status = "confirmed"
    /\ Rec(last.id).confirmedAt = now
    /\ LET p == Rec(last.id)
       IN /\ Qualifies(GetTransaction(ledger, p.transactionSignature), p)
          /\ \E older \in LedgerTxs :
                /\ older.signature < p.transactionSignature
                /\ Qualifies(older, p)
          /\ \A tx \in LedgerTxs : tx.signature <= p.transactionSignature

\* The detail the suspended call of c is about to receive.
Examined(c) == GetTransaction(ledger, Head(calls[c].sigs))

\* The answer just given to the suspended call of c passed over the
\* transaction it examined: nothing was written and the scan went on to the
\* next signature, or ended with false after the last one.
PassedOver(c) ==
    /\ heap' = heap
    /\ IF Tail(calls[c].sigs) = <<>>
       THEN last'.ret = "false" /\ calls'[c] = IdleCall
       ELSE /\ last'.ret = "await"
            /\ calls'[c].pc = "tx"
            /\ calls'[c].sigs = Tail(calls[c].sigs)

\* C27: a transaction whose detail has meta but no message/account-key list is
\* skipped on its own: the scan continues with the next signature.
C27_AnomalySkipped ==
    [][\A c \in DirectCallers :
          (calls[c].pc = "tx" /\ last'.op = "check" /\ last'.caller = c
               /\ Examined(c).detail = "nomessage")
              => PassedOver(c)]_vars

\* C28: a transaction the ledger reports as failed, or whose detail or meta is
\* absent, never confirms a record whatever its time and balance delta, and
\* the scan continues with the next signature.
C28_FailedOrAbsentNeverConfirms ==
    [][/\ \A c \in DirectCallers :
             (calls[c].pc = "tx" /\ last'.op = "check" /\ last'.caller = c
                  /\ Examined(c).detail \in {"err", "null", "nometa"})
                 => PassedOver(c)
       /\ \A i \in DOMAIN heap' :
             heap'[i].status = "confirmed"
                 => GetTransaction(ledger, heap'[i].transactionSignature).detail
                        \notin {"err", "null", "nometa"}]_vars

\* C28 witness: a call has confirmed a record with a successful transfer while
\* two transfers of the expected amount that are failed, without detail or
\* without meta, of two different kinds, are more recent in the ledger.
C28_Witness ==
    /\ last.op = "check" /\ last.ret = "true" /\ last.gateway
    /\ Stored(last.id)
    /\ Rec(last.id).status = "confirmed"
    /\ \E tx1, tx2 \in LedgerTxs :
          /\ tx1.detail # tx2.detail
          /\ \A tx \in {tx1, tx2} :
                /\ tx.detail \in {"err", "null", "nometa"}
                /\ tx.signature > Rec(last.id).transactionSignature
                /\ tx.blockTime * 1000 >= Rec(last.id).createdAt
                /\ Rec(last.id).amountLamports \in TreasuryDeltas(tx)

\* C29: a signature whose block time is null or undefined is skipped: it is
\* not examined and never confirms a record, it does not make the call fail,
\* and the signatures that have a block time at or after createdAt are all
\* still examined.
C29_UntimedSignatureSkipped ==
    [][/\ \A c \in DirectCallers :
             (calls[c].pc = "sigs" /\ last'.op = "check" /\ last'.caller = c)
                 => /\ last'.ret \in {"await", "false"}
                    /\ ~last'.logged
                    /\ heap' = heap
                    /\ \A i \in 1..Len(ledger) :
                          LET listed == \E k \in 1..Len(calls'[c].sigs) :
                                           calls'[c].sigs[k] = ledger[i].signature
                          IN /\ ledger[i].blockTime < 0 => ~listed
                             /\ (/\ i <= 10
                                 /\ ledger[i].blockTime >= 0
                                 /\ ledger[i].blockTime * 1000
                                        >= heap[calls[c].obj].createdAt)
                                    => listed
       /\ \A i \in DOMAIN heap' :
             heap'[i].status = "confirmed"
                 => GetTransaction(ledger, heap'[i].transactionSignature).blockTime >= 0]_vars

\* C29 witness: a call has confirmed a record with a timed transfer while two
\* more recent transfers of the expected amount are listed without block time,
\* one null and one undefined.
C29_Witness ==
    /\ last.op = "check" /\ last.ret = "true" /\ last.gateway
    /\ Stored(last.id)
    /\ Rec(last.id).status = "confirmed"
    /\ \A missing \in {BtNull, BtUndefined} :
          \E tx \in LedgerTxs :
             /\ tx.blockTime = missing
             /\ tx.signature > Rec(last.id).transactionSignature
             /\ PaysExactly(tx, Rec(last.id))

\* Some account other than the treasury changed by exactly the amount of p.
OtherAccountPays(tx, p) ==
    \E i \in 1..Len(tx.accounts) :
       /\ tx.accounts[i].key # Treasury
       /\ tx.accounts[i].post - tx.accounts[i].pre = p.amountLamports

\* C30: only the balance change of the entry whose key is the treasury address
\* is compared with the expected amount: a transaction in which the treasury
\* does not appear, or in which only another account changed by the expected
\* amount, is passed over, and every confirmed record was confirmed by a
\* transaction whose treasury entry changed by the amount within the tolerance.
C30_OnlyTreasuryEntryCounts ==
    [][/\ \A c \in DirectCallers :
             (/\ calls[c].pc = "tx" /\ last'.op = "check" /\ last'.caller = c
              /\ Examined(c).detail = "ok"
              /\ \/ TreasuryDeltas(Examined(c)) = {}
                 \/ /\ OtherAccountPays(Examined(c), heap[calls[c].obj])
                    /\ \A delta \in TreasuryDeltas(Examined(c)) :
                          Abs(delta - heap[calls[c].obj].amountLamports) >= 1000)
                 => PassedOver(c)
       /\ \A i \in DOMAIN heap' :
             heap'[i].status = "confirmed"
                 => \E delta \in TreasuryDeltas(
                            GetTransaction(ledger, heap'[i].transactionSignature)) :
                       Abs(delta - heap'[i].amountLamports) < 1000]_vars

\* C30 witness: a call confirmed a record with a transfer into the treasury
\* after passing over two more recent transactions that moved the expected
\* amount into another account, one without the treasury among its accounts
\* and one with the treasury listed but unchanged.
C30_Witness ==
    /\ last.op = "check" /\ last.ret = "true" /\ last.gateway
    /\ Stored(last.id)
    /\ Rec(last.id).status = "confirmed"
    /\ \E tx \in LedgerTxs :
          /\ tx.signature > Rec(last.id).transactionSignature
          /\ tx.detail = "ok" /\ tx.blockTime >= 0
          /\ TreasuryDeltas(tx) = {}
          /\ OtherAccountPays(tx, Rec(last.id))
    /\ \E tx \in LedgerTxs :
          /\ tx.signature > Rec(last.id).transactionSignature
          /\ tx.detail = "ok" /\ tx.blockTime >= 0
          /\ TreasuryDeltas(tx) = {0}
          /\ OtherAccountPays(tx, Rec(last.id))

\* The signature is one of the 10 most recent of the treasury in ledger l.
InWindow(l, signature) ==
    \E i \in 1..Len(l) : i <= 10 /\ l[i].signature = signature

\* C31: a call considers at most the 10 most recent signatures of the
\* treasury: the signatures it goes on to examine all come from the 10 listed
\* first when the gateway answers, and the call confirms its record only with
\* the signature it is examining.
C31_WindowOfTen ==
    [][\A c \in DirectCallers :
          (last'.op = "check" /\ last'.caller = c)
              => /\ calls[c].pc = "sigs"
                    => /\ heap' = heap
                       /\ \A k \in 1..Len(calls'[c].sigs) :
                             InWindow(ledger, calls'[c].sigs[k])
                 /\ calls[c].pc = "tx"
                    => /\ \A k \in 1..Len(calls'[c].sigs) :
                             \E j \in 1..Len(calls[c].sigs) :
                                calls'[c].sigs[k] = calls[c].sigs[j]
                       /\ heap' # heap
                             => heap'[calls[c].obj].transactionSignature
                                    = Head(calls[c].sigs)]_vars

\* C31 witness: a call on a pending, unexpired record has just been answered
\* false by the gateway while a qualifying transfer sits in the history behind
\* the 10 most recent signatures.
C31_Witness ==
    /\ last.op = "check" /\ last.ret = "false" /\ last.gateway
    /\ Stored(last.id)
    /\ Rec(last.id).status = "pending"
    /\ now <= Rec(last.id).expiresAt
    /\ \E i \in 1..Len(ledger) : i > 10 /\ Qualifies(ledger[i], Rec(last.id))
    /\ \A i \in 1..Len(ledger) : i <= 10 => ~Qualifies(ledger[i], Rec(last.id))

\* C32: the first verification of a watcher is started by the call of
\* waitForPaymentConfirmation itself, with no wait; a later verification is
\* started only by the timer, a full poll interval after a verification ended
\* without a terminal result; and while a verification is outstanding the only
\* step of the watcher is the answer to it, so there are never two.
C32_PollingSchedule ==
    [][\A w \in WatcherIds :
          /\ (watchers[w].st = "none" /\ WatcherStep(w) /\ Stored(last'.id))
                 => /\ last'.ret \in {"true", "false", "await"}
                    /\ now' = now
                    /\ last'.ret = "await"
                          => watchers'[w].st = "checking" /\ calls'[w].pc = "sigs"
          /\ (watchers[w].st = "waiting" /\ WatcherStep(w))
                 => /\ now >= watchers[w].due
                    /\ calls[w].pc = "idle"
          /\ (watchers'[w].st = "waiting" /\ watchers[w].st # "waiting")
                 => /\ WatcherStep(w)
                    /\ last'.ret = "false" /\ last'.given = <<>>
                    /\ watchers'[w].due = now + 1000
                    /\ calls'[w].pc = "idle"
          /\ (watchers[w].st = "checking" /\ WatcherStep(w))
                 => /\ calls[w].pc # "idle"
                    /\ \/ calls'[w].pc = "idle"
                       \/ /\ calls'[w].pc = "tx"
                          /\ calls'[w].obj = calls[w].obj
          /\ (calls[w].pc # "idle") <=> (watchers[w].st = "checking")]_vars

\* C32 witness: the timer of a watcher has fired a poll interval after a
\* verification that ended without result, and the verification it started is
\* now outstanding at the gateway.
C32_Witness ==
    \E w \in WatcherIds :
       /\ last.op = "watch" /\ last.caller = w
       /\ last.from = "waiting"
       /\ last.ret = "await"
       /\ watchers[w].st = "checking"
       /\ calls[w].pc = "sigs"
       /\ now >= heap[watchers[w].obj].createdAt + 1000

\* The watcher is running: a verification is outstanding or scheduled.
Active(w) == watchers[w].st \in {"checking", "waiting"}

\* C33: with timers that fire and gateway requests that are answered or fail,
\* a running watcher whose record's expiresAt the clock has passed eventually
\* stops, having invoked its handler; a watcher that has stopped has invoked
\* its handler and has nothing outstanding; and on a request that was never
\* paid the handler is given 'expired', after expiresAt.
C33_WatcherTerminates ==
    /\ \A w \in WatcherIds :
          (Active(w) /\ now > heap[watchers[w].obj].expiresAt)
              ~> (watchers[w].st = "done" /\ watchers[w].delivered # <<>>)
    /\ [](\A w \in WatcherIds :
             watchers[w].st = "done"
                 => /\ watchers[w].delivered # <<>>
                    /\ calls[w].pc = "idle"
                    /\ ledger = <<>>
                          => /\ Head(watchers[w].delivered) = "expired"
                             /\ now > heap[watchers[w].obj].expiresAt)

\* C33 witness: a watcher on a request that was never paid was started in
\* time, polled, and has stopped after handing 'expired' to its handler.
C33_Witness ==
    \E w \in WatcherIds :
       /\ watchers[w].st = "done"
       /\ watchers[w].delivered = <<"expired">>
       /\ last.op = "watch" /\ last.caller = w /\ last.from = "waiting"
       /\ ledger = <<>>
       /\ now > heap[watchers[w].obj].expiresAt

\* The rest of a suspended call, run against the gateway history as it stands.
RECURSIVE RunCall(_)
RunCall(call) ==
    LET out == IF call.pc = "sigs" THEN SignaturesArrive(call)
               ELSE TransactionArrives(call)
    IN IF out.ret = "await" THEN RunCall(out.call) ELSE out

\* What checkPaymentStatus answers for the pending, unexpired object obj
\* against the present history: the result and the matched signature.
Verdict(obj) ==
    LET out == RunCall([pc |-> "sigs", id |-> UnknownId, obj |-> obj, sigs |-> <<>>])
    IN [ret |-> out.ret, signature |-> out.heap[obj].transactionSignature]

\* Two different pending, unexpired records with the amount and the createdAt
\* of each other.
Twins(p, q) ==
    /\ p # q
    /\ heap[p].status = "pending" /\ heap[q].status = "pending"
    /\ now <= heap[p].expiresAt /\ now <= heap[q].expiresAt
    /\ heap[p].amountLamports = heap[q].amountLamports
    /\ heap[p].createdAt = heap[q].createdAt

\* C34: for the same gateway history, two pending unexpired records with equal
\* amountLamports and equal createdAt get the same checkPaymentStatus result
\* and the same matched signature, whatever their userId and paymentId; and two
\* calls that are examining the same signatures for such records are given
\* the same answer on the next transaction.
C34_MatchIgnoresIdentity ==
    /\ \A p \in DOMAIN heap, q \in DOMAIN heap :
          Twins(p, q) => Verdict(p) = Verdict(q)
    /\ (/\ calls["c1"].pc = "tx" /\ calls["c2"].pc = "tx"
        /\ Twins(calls["c1"].obj, calls["c2"].obj)
        /\ calls["c1"].sigs = calls["c2"].sigs)
           => TransactionArrives(calls["c1"]).ret = TransactionArrives(calls["c2"]).ret

\* C34 witness: the requests of two different users, equal in amount and
\* createdAt, are being checked by two callers that were given the same
\* signatures, and the history holds a transfer, paid from the first user's
\* account, that confirms either of them.
C34_Witness ==
    /\ calls["c1"].pc = "tx" /\ calls["c2"].pc = "tx"
    /\ calls["c1"].sigs = calls["c2"].sigs
    /\ calls["c1"].id # calls["c2"].id
    /\ Twins(calls["c1"].obj, calls["c2"].obj)
    /\ heap[calls["c1"].obj].userId # heap[calls["c2"].obj].userId
    /\ Verdict(calls["c1"].obj).ret = "true"
    /\ GetTransaction(ledger, Verdict(calls["c1"].obj).signature).accounts[1].key = "u1"

\* The signatures a call for object obj would go on to examine if the gateway
\* listed ledger l.
Evaluated(l, obj) ==
    LET rel == RelevantSignatures(GetSignaturesForAddress(l), heap[obj].createdAt)
    IN {rel[k].signature : k \in 1..Len(rel)}

\* C35: every successful transaction that occurs at or after the creation of a
\* request passes the time filter of that request and is evaluated against the
\* amount rule: a transaction that lands when the record exists is, from the
\* moment it is listed, among the signatures a call for that record examines,
\* also when it lands within the clock second of the creation.
C35_LaterTransactionEvaluated ==
    [][(/\ last'.op = "transaction"
        /\ ledger'[1].detail = "ok"
        /\ ledger'[1].blockTime = now \div 1000)
          => \A obj \in DOMAIN heap :
                heap[obj].createdAt <= now
                    => ledger'[1].signature \in Evaluated(ledger', obj)]_vars

\* C36: a record is confirmed only by a transaction that increased the
\* treasury balance, whatever the accepted amount: the transaction whose
\* signature a confirmed record carries has a positive treasury balance change.
C36_ConfirmedByIncreaseOnly ==
    \A obj \in DOMAIN heap :
        heap[obj].status = "confirmed"
            => \E delta \in TreasuryDeltas(
                      GetTransaction(ledger, heap[obj].transactionSignature)) :
                  delta > 0

\* C37: the terminal outcomes reported for one payment id agree: when the
\* handler of a watcher has been given 'expired' for an id, no
\* checkPaymentStatus caller is answered true for that id, and the handler is
\* not given 'expired' for a record that a call has already confirmed (the
\* confirming call returned true to its caller at line 133).
C37_OutcomesAgree ==
    \A w \in WatcherIds :
        (\E i \in DOMAIN watchers[w].delivered : watchers[w].delivered[i] = "expired")
            => /\ ~(/\ last.op = "check"
                    /\ last.id = watchers[w].id
                    /\ last.ret = "true")
               /\ (last.op = "watch" /\ last.caller = w /\ last.given # <<>>)
                     => heap[watchers[w].obj].status # "confirmed"

\* C38: a watcher invokes its handler at most once, also when the handler
\* raises an error while it receives the 'confirmed' or 'expired' result.
C38_HandlerInvokedAtMostOnce ==
    \A w \in WatcherIds :
        /\ Len(watchers[w].delivered) <= 1
        /\ (last.op = "watch" /\ last.caller = w) => Len(last.given) <= 1

\* C39: a step of checkPaymentStatus(id) or of a watcher on id, whatever its
\* outcome, leaves the set of stored ids and their bindings as they were,
\* creates no record, leaves every field of the records stored under other ids
\* unchanged, and writes to at most one record.
C39_CallTouchesOnlyItsRecord ==
    [][(last'.op \in {"check", "watch"})
          => /\ pendingPayments' = pendingPayments
             /\ issued' = issued
             /\ Len(heap') = Len(heap)
             /\ \A other \in Keys :
                   other # last'.id => heap'[AddrOf(other)] = heap[AddrOf(other)]
             /\ Cardinality({obj \in DOMAIN heap : heap'[obj] # heap[obj]}) <= 1]_vars

\* C39 witness: a call has just confirmed the record of its id while a second
\* request for the same amount, which the same transfer would match, is
\* stored under another id and is still pending.
C39_Witness ==
    /\ last.op \in {"check", "watch"} /\ last.ret = "true"
    /\ Stored(last.id)
    /\ Rec(last.id).status = "confirmed"
    /\ Rec(last.id).confirmedAt = now
    /\ \E other \in Keys :
          /\ other # last.id
          /\ Rec(other).status = "pending"
          /\ Rec(other).amountLamports = Rec(last.id).amountLamports
          /\ Qualifies(GetTransaction(ledger, Rec(last.id).transactionSignature),
                       Rec(other))

====
